---- MODULE Spec2Model ----
(***************************************************************************)
(* The resumable pipeline of media-bridge: the State Store                 *)
(* (media_bridge/state_manager.py), the retry policy                       *)
(* (media_bridge/error_handler.py) and the Coordinator                     *)
(* (Downloader.download_videos in media_bridge/downloader.py).             *)
(*                                                                         *)
(* The decorator lines @with_retry(max_attempts=3, ...) are read as        *)
(* with_retry.wrapper applied to the decorated method with those keyword   *)
(* parameters, and MediaStatus.DOWNLOADING (downloader.py:147) as a member *)
(* of MediaStatus whose value is "DOWNLOADING".                            *)
(***************************************************************************)
EXTENDS Integers, Sequences, FiniteSets, TLC

VARIABLES
    media,           \* table media_items: locator -> row
    uploads,         \* table upload_status: locator -> uploader id -> row
    conn,            \* StateManager._conn is a connection (TRUE) or None
    disk,            \* the local files that exist, named by their locator
    pc,              \* position of the Coordinator
    runs,            \* number of runs started
    items,           \* number of locators taken up, over all runs
    urls,            \* urls_to_process of the current run
    idx,             \* index of the locator being processed
    uploaders,       \* self.uploaders: the enabled uploader ids, in order
    item_details,    \* the snapshot read at line 197
    download_needed, \* local of download_videos ("unbound" before line 212)
    processed,       \* processed_successfully_or_skipped
    uidx,            \* index of the uploader in turn
    cache,           \* _downloaded_files_session_cache (its keys)
    rt,              \* the with_retry.wrapper call in progress
    dlRes,           \* how the wrapper call around _download_video ended
    upRes,           \* how the wrapper call around upload_video ended, per uploader
    cur,             \* history: the locator the history below is about
    ended,           \* history: the processing of cur has ended (line 405)
    engineCalls,     \* history: Download Engine invocations for cur
    targetCalls,     \* history: upload_video invocations for cur, per uploader
    lastEvent,       \* history: the last event the engine reported for cur
    row0,            \* history: the media row of cur when its processing began
    uploads0,        \* history: the upload rows of cur when its processing began
    file0,           \* history: the recorded local file of cur existed then
    now,             \* the clock, as a UTC instant
    tz,              \* the offset of the host's local time from UTC
    call             \* a call of a store operation or of a pure function, and its result

vars == <<media, uploads, conn, disk, pc, runs, items, urls, idx, uploaders,
          item_details, download_needed, processed, uidx, cache, rt,
          dlRes, upRes, cur, ended, engineCalls, targetCalls, lastEvent,
          row0, uploads0, file0, now, tz, call>>

histVars == <<cur, ended, engineCalls, targetCalls, lastEvent,
              row0, uploads0, file0>>

-----------------------------------------------------------------------------
(* Bounds *)

NumLocators == 2
MaxRuns == 2
MaxItems == 2

LocatorNames == <<"L1", "L2", "L3", "L4">>
Locators == {LocatorNames[k] : k \in 1..NumLocators}

\* The batches a run is started with: the locators in input order.
Batches == {SelectSeq(SubSeq(LocatorNames, 1, NumLocators), LAMBDA l : l \in S) :
                S \in (SUBSET Locators) \ {{}}}

-----------------------------------------------------------------------------
(* Values *)

None == "None"
NoMsg == <<>>

\* No call of a store operation or pure function is under way.
NoCall == [op |-> "none"]

Min(a, b) == IF a < b THEN a ELSE b

Contains(msg, t) == \E k \in 1..Len(msg) : msg[k] = t

\* A file path is named by the locator it was downloaded from.
PathOf(url) == url
PathExists(d, p) == p \in d

-----------------------------------------------------------------------------
(* media_bridge/status.py *)

MediaStatusValues ==
    {"PENDING_DOWNLOAD", "DOWNLOADING", "DOWNLOADED", "UPLOAD_PENDING",
     "COMPLETED", "FAILED_DOWNLOAD", "FAILED_UPLOAD"}

UploadStatusValues == {"PENDING", "SUCCESS", "FAILED"}

\* MediaStatus.from_str: a falsy or unknown string gives None.
MediaStatusFromStr(s) == IF s \in MediaStatusValues THEN s ELSE None

\* UploadStatus.from_str
UploadStatusFromStr(s) == IF s \in UploadStatusValues THEN s ELSE None

-----------------------------------------------------------------------------
(* media_bridge/error_handler.py: the exception classes and with_retry *)

\* class -> base class
ExceptionBase ==
    [RetryableError        |-> "Exception",
     NonRetryableError     |-> "Exception",
     NetworkError          |-> "RetryableError",
     AuthenticationError   |-> "NonRetryableError",
     ResourceNotFoundError |-> "NonRetryableError",
     ValidationError       |-> "NonRetryableError",
     UploadError           |-> "RetryableError",
     UploadQuotaError      |-> "NonRetryableError",
     UploadSizeError       |-> "NonRetryableError",
     UploadFormatError     |-> "NonRetryableError",
     UploadPermissionError |-> "NonRetryableError",
     UploadTimeoutError    |-> "UploadError",
     UploadConnectionError |-> "UploadError",
     UploadRateLimitError  |-> "UploadError",
     DownloadError         |-> "Exception",
     ValueError            |-> "Exception",
     TypeError             |-> "Exception",
     AttributeError        |-> "Exception",
     UnicodeError          |-> "ValueError",
     LookupError           |-> "Exception",
     KeyError              |-> "LookupError",
     OSError               |-> "Exception",
     ConnectionError       |-> "OSError",
     ConnectionResetError  |-> "ConnectionError",
     TimeoutError          |-> "OSError",
     Exception             |-> "BaseException"]

RECURSIVE IsInstance(_, _)
IsInstance(t, c) ==
    IF t = c THEN TRUE
    ELSE IF t \in DOMAIN ExceptionBase THEN IsInstance(ExceptionBase[t], c)
    ELSE FALSE

\* except <tuple of classes>
IsInstanceOfAny(t, classes) == \E c \in classes : IsInstance(t, c)

\* An exception: its class, str(e) as a sequence of text fragments, and the
\* number of the invocation of the wrapped operation that raised it.
Exc(t, msg, at) == [type |-> t, msg |-> msg, at |-> at]
NoExc == Exc(None, NoMsg, 0)

\* The outcome of one invocation of a wrapped operation.
Returned(v) == [kind |-> "return", value |-> v, exc |-> NoExc]
Raised(e) == [kind |-> "raise", value |-> None, exc |-> e]

\* The parameters with_retry closes over (lines 110-118), before any
\* decoration.
NoPolicy ==
    [max_attempts |-> 0, initial_delay |-> 0, max_delay |-> 0,
     backoff_factor |-> 0, retryable |-> {}, on_retry |-> FALSE]

\* The state of one with_retry.wrapper call; policy is the closure of the
\* wrapper that runs.
RetryIdle ==
    [state |-> "idle", attempt |-> 0, delay |-> 0, calls |-> 0, waits |-> <<>>,
     notified |-> <<>>, last_exception |-> NoExc, value |-> None, exc |-> NoExc,
     policy |-> NoPolicy]

\* wrapper, lines 136-139 (and 165 when range(max_attempts) is empty:
\* "raise None" is a TypeError).
RetryBegin(p) ==
    IF p.max_attempts > 0
    THEN [RetryIdle EXCEPT !.state = "calling", !.delay = p.initial_delay,
                           !.policy = p]
    ELSE [RetryIdle EXCEPT !.state = "raised", !.delay = p.initial_delay,
                           !.policy = p,
                           !.exc = Exc("TypeError", <<"exceptions must derive from BaseException">>, 0)]

\* A wrapper that hands on_retry the loop index instead of attempt + 1.
RetryStepZeroBased(p, r, out) ==
    IF out.kind = "return"
    THEN [r EXCEPT !.calls = @ + 1, !.state = "returned", !.value = out.value]
    ELSE IF IsInstanceOfAny(out.exc.type, p.retryable)
         THEN IF r.attempt < p.max_attempts - 1
              THEN [r EXCEPT !.calls = @ + 1,
                             !.last_exception = out.exc,
                             !.notified = IF p.on_retry
                                          THEN Append(@, <<out.exc, r.attempt>>)
                                          ELSE @,
                             !.waits = Append(@, r.delay),
                             !.delay = Min(r.delay * p.backoff_factor, p.max_delay),
                             !.attempt = @ + 1]
              ELSE [r EXCEPT !.calls = @ + 1,
                             !.last_exception = out.exc,
                             !.state = "raised",
                             !.exc = out.exc]
         ELSE [r EXCEPT !.calls = @ + 1, !.state = "raised", !.exc = out.exc]

\* A wrapper whose loop gives up one iteration early.
RetryStepOneShort(p, r, out) ==
    IF out.kind = "return"
    THEN [r EXCEPT !.calls = @ + 1, !.state = "returned", !.value = out.value]
    ELSE IF IsInstanceOfAny(out.exc.type, p.retryable)
         THEN IF r.attempt < p.max_attempts - 2
              THEN [r EXCEPT !.calls = @ + 1,
                             !.last_exception = out.exc,
                             !.notified = IF p.on_retry
                                          THEN Append(@, <<out.exc, r.attempt + 1>>)
                                          ELSE @,
                             !.waits = Append(@, r.delay),
                             !.delay = Min(r.delay * p.backoff_factor, p.max_delay),
                             !.attempt = @ + 1]
              ELSE [r EXCEPT !.calls = @ + 1,
                             !.last_exception = out.exc,
                             !.state = "raised",
                             !.exc = out.exc]
         ELSE [r EXCEPT !.calls = @ + 1, !.state = "raised", !.exc = out.exc]

\* wrapper, lines 139-165: one iteration of the loop, given the outcome of
\* func(*args, **kwargs).
RetryStep(p, r, out) ==
    IF out.kind = "return"
    THEN [r EXCEPT !.calls = @ + 1, !.state = "returned", !.value = out.value]
    ELSE IF IsInstanceOfAny(out.exc.type, p.retryable)
         THEN IF r.attempt < p.max_attempts - 1
              THEN [r EXCEPT !.calls = @ + 1,
                             !.last_exception = out.exc,
                             !.notified = IF p.on_retry
                                          THEN Append(@, <<out.exc, r.attempt + 1>>)
                                          ELSE @,
                             !.waits = Append(@, r.delay),
                             !.delay = Min(r.delay * p.backoff_factor, p.max_delay),
                             !.attempt = @ + 1]
              ELSE \* the loop ends; line 165 raises last_exception
                   [r EXCEPT !.calls = @ + 1,
                             !.last_exception = out.exc,
                             !.state = "raised",
                             !.exc = out.exc]
         ELSE \* line 159: re-raised at once
              [r EXCEPT !.calls = @ + 1, !.state = "raised", !.exc = out.exc]

\* downloader.py:112-117, the parameters of the wrapper around _download_video
DownloadMaxAttempts == 3
InitialDelay == 1
MaxDelay == 30
BackoffFactor == 2
DownloadRetry ==
    [max_attempts |-> DownloadMaxAttempts, initial_delay |-> InitialDelay,
     max_delay |-> MaxDelay, backoff_factor |-> BackoffFactor,
     retryable |-> {"NetworkError"}, on_retry |-> FALSE]

\* integrations/base.py:77-82, the parameters of the wrapper around upload_video
UploadMaxAttempts == 3
UploadRetry ==
    [max_attempts |-> UploadMaxAttempts, initial_delay |-> InitialDelay,
     max_delay |-> MaxDelay, backoff_factor |-> BackoffFactor,
     retryable |-> {"UploadError"}, on_retry |-> FALSE]

-----------------------------------------------------------------------------
(* media_bridge/state_manager.py *)

\* The uploader ids (u.__class__.__name__), in the order create_uploaders
\* appends them.  A destination is a CloudStorageUploader whose upload_video
\* is the retry-wrapped method of integrations/base.py:77-125.
AllUploaders == <<"GoogleDriveUploader", "GooglePhotosUploader">>
UploaderIds == {AllUploaders[k] : k \in 1..Len(AllUploaders)}

NoMediaRow ==
    [exists |-> FALSE, status |-> None, title |-> None, local_path |-> None,
     yt_dlp_id |-> None, error_message |-> NoMsg, retry_count |-> 0]

NoUploadRow ==
    [exists |-> FALSE, status |-> None, uploaded_id |-> None, retry_count |-> 0]

\* COALESCE(excluded.x, x)
Coalesce(new, old) == IF new # None THEN new ELSE old

\* A variant of the upsert whose update keeps the stored error_message when
\* the call carries none (COALESCE(excluded.error_message, error_message)).
AddOrUpdateMediaItemKeepsMessage(m, c, url, title, local_path, status, yt_dlp_id, error_message) ==
    IF ~c THEN m
    ELSE LET row == m[url]
             prev == IF row.exists THEN row.retry_count ELSE 0
             retry_count == IF error_message # NoMsg THEN prev + 1 ELSE prev
         IN  [m EXCEPT ![url] =
                 [exists |-> TRUE,
                  status |-> status,
                  title |-> IF row.exists THEN Coalesce(title, row.title) ELSE title,
                  local_path |-> IF row.exists THEN Coalesce(local_path, row.local_path)
                                 ELSE local_path,
                  yt_dlp_id |-> IF row.exists THEN Coalesce(yt_dlp_id, row.yt_dlp_id)
                                ELSE yt_dlp_id,
                  error_message |-> IF row.exists /\ error_message = NoMsg
                                    THEN row.error_message ELSE error_message,
                  retry_count |-> retry_count]]

\* add_or_update_media_item, lines 109-169.  m is the table, c the connection.
AddOrUpdateMediaItem(m, c, url, title, local_path, status, yt_dlp_id, error_message) ==
    IF ~c THEN m
    ELSE LET row == m[url]
             prev == IF row.exists THEN row.retry_count ELSE 0
             retry_count == IF error_message # NoMsg THEN prev + 1 ELSE prev
         IN  [m EXCEPT ![url] =
                 IF row.exists
                 THEN [exists |-> TRUE,
                       status |-> status,
                       title |-> Coalesce(title, row.title),
                       local_path |-> Coalesce(local_path, row.local_path),
                       yt_dlp_id |-> Coalesce(yt_dlp_id, row.yt_dlp_id),
                       error_message |-> error_message,
                       retry_count |-> retry_count]
                 ELSE [exists |-> TRUE,
                       status |-> status,
                       title |-> title,
                       local_path |-> local_path,
                       yt_dlp_id |-> yt_dlp_id,
                       error_message |-> error_message,
                       retry_count |-> retry_count]]

\* CREATE TABLE upload_status, lines 61-75: its columns.
UploadStatusColumns ==
    {"video_url", "uploader_id", "uploaded_id", "upload_timestamp", "status",
     "retry_count", "last_error_timestamp", "metadata", "created_at", "updated_at"}

\* The columns the upsert of update_upload_status names (lines 201-214),
\* in its INSERT list and as excluded.<column>.
UploadUpsertColumns ==
    {"video_url", "uploader_id", "status", "uploaded_id", "upload_timestamp",
     "retry_count", "last_error_timestamp", "metadata", "updated_at",
     "error_message"}

\* sqlite3 prepares the statement only if every column it names exists;
\* otherwise execute raises sqlite3.OperationalError (no such column).
UploadUpsertPrepares == UploadUpsertColumns \subseteq UploadStatusColumns

\* update_upload_status, lines 180-235.  u is the table, c the connection.
\* The sqlite3.Error of a statement that does not prepare is caught at line
\* 231 and the call commits nothing.
UpdateUploadStatus(u, c, url, uploader_id, status, uploaded_id, error_message) ==
    IF ~c THEN u
    ELSE IF ~UploadUpsertPrepares THEN u
    ELSE LET row == u[url][uploader_id]
             prev == IF row.exists THEN row.retry_count ELSE 0
             retry_count == IF error_message # NoMsg THEN prev + 1 ELSE prev
         IN  [u EXCEPT ![url][uploader_id] =
                 [exists |-> TRUE, status |-> status,
                  uploaded_id |-> uploaded_id, retry_count |-> retry_count]]

NoDetails ==
    [exists |-> FALSE, status |-> None, local_path |-> None,
     uploads |-> [d \in UploaderIds |-> NoUploadRow]]

\* get_media_item_details, lines 237-275
GetMediaItemDetails(m, u, c, url) ==
    IF ~c \/ ~m[url].exists THEN NoDetails
    ELSE [exists |-> TRUE,
          status |-> MediaStatusFromStr(m[url].status),
          local_path |-> m[url].local_path,
          uploads |-> [d \in UploaderIds |->
                          IF u[url][d].exists
                          THEN [u[url][d] EXCEPT !.status = UploadStatusFromStr(@)]
                          ELSE NoUploadRow]]

\* details["uploads"].get(uploader_id, {}).get("status")
UploadStatusOf(details, uploader_id) ==
    IF details.uploads[uploader_id].exists
    THEN details.uploads[uploader_id].status
    ELSE None

\* is_video_processed_for_uploaders, lines 342-358.  ids is a sequence.
IsVideoProcessedForUploaders(m, u, c, url, ids) ==
    IF ~c \/ ids = <<>> THEN FALSE
    ELSE LET details == GetMediaItemDetails(m, u, c, url)
         IN  IF ~details.exists
                \/ (\A d \in UploaderIds : ~details.uploads[d].exists)
             THEN FALSE
             ELSE \A k \in 1..Len(ids) : UploadStatusOf(details, ids[k]) = "SUCCESS"

\* get_local_path, lines 379-385
GetLocalPath(m, u, c, url) ==
    IF ~c THEN None
    ELSE GetMediaItemDetails(m, u, c, url).local_path

\* A variant of update_item_status_if_all_uploads_done that marks the item
\* COMPLETED as soon as one enabled uploader has a SUCCESS record.
UpdateItemStatusIfAnyUploadDone(m, u, c, url, ids) ==
    IF ~c THEN m
    ELSE IF ids = <<>>
    THEN AddOrUpdateMediaItem(m, c, url, None, None, "COMPLETED", None, NoMsg)
    ELSE IF \E k \in 1..Len(ids) :
                UploadStatusOf(GetMediaItemDetails(m, u, c, url), ids[k]) = "SUCCESS"
    THEN AddOrUpdateMediaItem(m, c, url, None, None, "COMPLETED", None, NoMsg)
    ELSE m

\* A variant of update_item_status_if_all_uploads_done without the branch of
\* lines 393-396 for an empty list of uploader ids.
UpdateItemStatusNoEmptyBranch(m, u, c, url, ids) ==
    IF ~c THEN m
    ELSE IF IsVideoProcessedForUploaders(m, u, c, url, ids)
    THEN AddOrUpdateMediaItem(m, c, url, None, None, "COMPLETED", None, NoMsg)
    ELSE m

\* A variant of update_item_status_if_all_uploads_done that marks the item
\* FAILED_UPLOAD when an enabled uploader's record is FAILED and none is
\* PENDING.
UpdateItemStatusMarksFailedUpload(m, u, c, url, ids) ==
    IF ~c THEN m
    ELSE IF ids = <<>>
    THEN AddOrUpdateMediaItem(m, c, url, None, None, "COMPLETED", None, NoMsg)
    ELSE IF IsVideoProcessedForUploaders(m, u, c, url, ids)
    THEN AddOrUpdateMediaItem(m, c, url, None, None, "COMPLETED", None, NoMsg)
    ELSE LET details == GetMediaItemDetails(m, u, c, url)
             has_pending ==
                 \E k \in 1..Len(ids) : UploadStatusOf(details, ids[k]) = "PENDING"
             has_failed ==
                 \E k \in 1..Len(ids) : UploadStatusOf(details, ids[k]) = "FAILED"
         IN  IF details.exists /\ details.status = "DOWNLOADED" /\ has_pending
             THEN AddOrUpdateMediaItem(m, c, url, None, None, "UPLOAD_PENDING", None, NoMsg)
             ELSE IF details.exists /\ details.status = "DOWNLOADED" /\ has_failed
             THEN AddOrUpdateMediaItem(m, c, url, None, None, "FAILED_UPLOAD", None,
                                       <<"upload failed">>)
             ELSE m

\* update_item_status_if_all_uploads_done, lines 387-432: the media table after
\* the call.
UpdateItemStatusIfAllUploadsDone(m, u, c, url, ids) ==
    IF ~c THEN m
    ELSE IF ids = <<>>
    THEN AddOrUpdateMediaItem(m, c, url, None, None, "COMPLETED", None, NoMsg)
    ELSE IF IsVideoProcessedForUploaders(m, u, c, url, ids)
    THEN AddOrUpdateMediaItem(m, c, url, None, None, "COMPLETED", None, NoMsg)
    ELSE LET details == GetMediaItemDetails(m, u, c, url)
             has_pending_or_failed ==
                 \E k \in 1..Len(ids) :
                     UploadStatusOf(details, ids[k]) \in {"PENDING", "FAILED"}
         IN  IF details.exists
                /\ details.status \notin {"FAILED_DOWNLOAD", "FAILED_UPLOAD"}
                /\ details.status = "DOWNLOADED"
                /\ has_pending_or_failed
             THEN AddOrUpdateMediaItem(m, c, url, None, None, "UPLOAD_PENDING", None, NoMsg)
             ELSE m

\* update_item_status_if_all_uploads_done executes an upsert of the media row
\* (lines 395, 399 or 419): the row's updated_at and last_attempt_timestamp
\* are set to now even when no modelled column changes.
UpdateItemStatusWrites(m, u, c, url, ids) ==
    /\ c
    /\ \/ ids = <<>>
       \/ IsVideoProcessedForUploaders(m, u, c, url, ids)
       \/ LET details == GetMediaItemDetails(m, u, c, url)
          IN  /\ details.exists
              /\ details.status = "DOWNLOADED"
              /\ \E k \in 1..Len(ids) :
                     UploadStatusOf(details, ids[k]) \in {"PENDING", "FAILED"}

-----------------------------------------------------------------------------
(* media_bridge/downloader.py: _make_progress_hook and _download_video *)

\* What the Download Engine reports: the text of the yt-dlp error.
EngineTexts == {"Video unavailable", "HTTP Error 503"}

\* info_dict: title and id of the video of a locator.
TitleOf(url) == "title"
IdOf(url) == "ytid"

\* _hook, status "finished", lines 68-87: the media table after the hook.
HookFinished(m, c, url) ==
    AddOrUpdateMediaItem(m, c, url, TitleOf(url), PathOf(url), "DOWNLOADED",
                         IdOf(url), NoMsg)

\* _hook, status "error", lines 93-108
HookError(m, c, url, text) ==
    AddOrUpdateMediaItem(m, c, url, TitleOf(url), None, "FAILED_DOWNLOAD",
                         None, <<text>>)

\* lines 135-141: what the handler around extract_info raises for e.
ExtractInfoHandler(e, url, at) ==
    IF Contains(e.msg, "Video unavailable")
    THEN Exc("ResourceNotFoundError", <<"Video unavailable", url>>, at)
    ELSE IF Contains(e.msg, "Private video")
    THEN Exc("ValidationError", <<"Private video", url>>, at)
    ELSE Exc("NetworkError", <<"Failed to get video info: ">> \o e.msg, at)

\* lines 157-168: what _download_video raises for an exception e of its body.
DownloadVideoHandler(e, url, at) ==
    IF IsInstance(e.type, "DownloadError")
    THEN IF Contains(e.msg, "Video unavailable")
         THEN Exc("ResourceNotFoundError", <<"Video unavailable", url>>, at)
         ELSE IF Contains(e.msg, "Private video")
         THEN Exc("ValidationError", <<"Private video", url>>, at)
         ELSE Exc("NetworkError", <<"Download failed: ">> \o e.msg, at)
    ELSE IF IsInstanceOfAny(e.type, {"ResourceNotFoundError", "ValidationError"})
    THEN e
    ELSE Exc("NetworkError", <<"Unexpected error during download: ">> \o e.msg, at)

\* What extract_info does: it returns info, returns nothing, or raises a
\* DownloadError with an engine text.
ExtractOutcomes ==
    {[kind |-> "info", text |-> None], [kind |-> "noinfo", text |-> None]}
    \cup {[kind |-> "raise", text |-> t] : t \in EngineTexts}

\* lines 129-141: the exception that leaves _download_video when extract_info
\* does not give info.
ExtractFailure(o, url, at) ==
    LET inner == IF o.kind = "noinfo"
                 THEN Exc("ResourceNotFoundError", <<"Could not find video: ", url>>, at)
                 ELSE Exc("DownloadError", <<o.text>>, at)
    IN  DownloadVideoHandler(ExtractInfoHandler(inner, url, at), url, at)

\* What ydl.download does: one terminal event ("finished" or "error") and a
\* normal return, an error event followed by a DownloadError, a DownloadError
\* with no event, or an exception of a class error_handler.py does not define
\* (a ValueError).
DownloadOutcomes ==
    {[kind |-> "finished", text |-> None]}
    \cup {[kind |-> k, text |-> t] :
            k \in {"error_event", "error_event_raise", "raise"}, t \in EngineTexts}
    \cup {[kind |-> "raise_unclassified", text |-> "unexpected"]}

\* What one invocation of the body of upload_video does (base.py:110-125):
\* it returns the id of the uploaded file, returns no id, or raises.
UploadRaises == {"UploadTimeoutError", "UploadPermissionError", "ValueError"}
UploadOutcomes ==
    {[kind |-> "id", type |-> None], [kind |-> "noid", type |-> None]}
    \cup {[kind |-> "raise", type |-> t] : t \in UploadRaises}

CloudId(uploader_id) == "cloud_id"

\* f"ERROR: {type(e).__name__}", line 380
ErrorId(e) == e.type

-----------------------------------------------------------------------------
(* The Coordinator: Downloader.download_videos, lines 170-407 *)

BetweenRuns == pc \in {"idle", "finished", "crashed"}

url == urls[idx]

NoTargetCalls == [d \in UploaderIds |-> 0]
NoUpRes == [d \in UploaderIds |-> RetryIdle]
NoUploadRows == [d \in UploaderIds |-> NoUploadRow]

Init ==
    /\ media = [l \in Locators |-> NoMediaRow]
    /\ uploads = [l \in Locators |-> NoUploadRows]
    /\ conn = TRUE
    /\ disk = {}
    /\ pc = "idle"
    /\ runs = 0
    /\ items = 0
    /\ urls = <<>>
    /\ idx = 0
    /\ uploaders = <<>>
    /\ item_details = NoDetails
    /\ download_needed = "unbound"
    /\ processed = FALSE
    /\ uidx = 0
    /\ cache = {}
    /\ rt = RetryIdle
    /\ dlRes = RetryIdle
    /\ upRes = NoUpRes
    /\ cur = None
    /\ ended = FALSE
    /\ engineCalls = 0
    /\ targetCalls = NoTargetCalls
    /\ lastEvent = "none"
    /\ row0 = NoMediaRow
    /\ uploads0 = NoUploadRows
    /\ file0 = FALSE
    /\ now = 0
    /\ tz = 0
    /\ call = NoCall

\* Nothing is known of the locator in turn yet.
ResetHistory ==
    /\ cur' = None
    /\ ended' = FALSE
    /\ engineCalls' = 0
    /\ targetCalls' = NoTargetCalls
    /\ lastEvent' = "none"
    /\ row0' = NoMediaRow
    /\ uploads0' = NoUploadRows
    /\ file0' = FALSE

\* What a process holds in memory when it starts or ends.
ResetMemory ==
    /\ item_details' = NoDetails
    /\ download_needed' = "unbound"
    /\ processed' = FALSE
    /\ uidx' = 0
    /\ cache' = {}
    /\ rt' = RetryIdle

\* core.main, lines 130-149: a run starts with the enabled uploaders of its
\* configuration and a batch of locators; download_videos, lines 171-193.
StartRun ==
    /\ BetweenRuns
    /\ runs < MaxRuns
    /\ \E batch \in Batches, enabled \in SUBSET UploaderIds :
          /\ items + Len(batch) <= MaxItems
          /\ urls' = batch
          /\ uploaders' = SelectSeq(AllUploaders, LAMBDA d : d \in enabled)
    /\ runs' = runs + 1
    /\ idx' = 1
    /\ pc' = "load"
    /\ ResetMemory
    /\ ResetHistory
    /\ dlRes' = RetryIdle
    /\ upRes' = NoUpRes
    /\ UNCHANGED <<media, uploads, conn, disk, items>>
    /\ UNCHANGED <<now, tz, call>>

\* Between runs a local file may be removed.
DeleteFile ==
    /\ BetweenRuns
    /\ \E l \in disk : disk' = disk \ {l}
    /\ UNCHANGED <<media, uploads, conn, pc, runs, items, urls, idx, uploaders,
                   item_details, download_needed, processed, uidx, cache, rt,
                   dlRes, upRes>>
    /\ UNCHANGED histVars
    /\ UNCHANGED <<now, tz, call>>

\* A variant of the resumability test that accepts UPLOAD_PENDING only.
ResumableUploadPendingOnly(details, d) ==
    /\ details.exists
    /\ details.local_path # None
    /\ PathExists(d, details.local_path)
    /\ details.status = "UPLOAD_PENDING"

\* The resumability test of lines 214-220 on the snapshot.
Resumable(details, d) ==
    /\ details.exists
    /\ details.local_path # None
    /\ PathExists(d, details.local_path)
    /\ details.status \in {"DOWNLOADED", "UPLOAD_PENDING"}

\* Lines 194-231: the top of the loop body up to the download step.
LoadItem ==
    /\ pc = "load"
    /\ cur' = url
    /\ ended' = FALSE
    /\ engineCalls' = 0
    /\ targetCalls' = NoTargetCalls
    /\ lastEvent' = "none"
    /\ row0' = media[url]
    /\ uploads0' = uploads[url]
    /\ file0' = (media[url].local_path # None /\ PathExists(disk, media[url].local_path))
    /\ dlRes' = RetryIdle
    /\ upRes' = NoUpRes
    /\ LET details == GetMediaItemDetails(media, uploads, conn, url)
       IN  /\ item_details' = details
           /\ IF /\ details.exists
                 /\ details.status = "COMPLETED"
                 /\ IsVideoProcessedForUploaders(media, uploads, conn, url, uploaders)
              THEN \* lines 205-209: skip
                   /\ processed' = TRUE
                   /\ pc' = "finally"
                   /\ UNCHANGED <<media, download_needed, cache, rt>>
              ELSE IF Resumable(details, disk)
              THEN \* lines 221-226
                   /\ download_needed' = "False"
                   /\ cache' = cache \cup {url}
                   /\ processed' = FALSE
                   /\ pc' = "check_file"
                   /\ UNCHANGED <<media, rt>>
              ELSE \* lines 228-245
                   /\ media' = AddOrUpdateMediaItem(media, conn, url, None, None,
                                                    "PENDING_DOWNLOAD", None, NoMsg)
                   /\ download_needed' = "True"
                   /\ processed' = FALSE
                   /\ rt' = RetryBegin(DownloadRetry)
                   /\ pc' = "dl_extract"
                   /\ UNCHANGED cache
    /\ items' = items + 1
    /\ UNCHANGED <<uploads, conn, disk, runs, urls, idx, uploaders, uidx>>
    /\ UNCHANGED <<now, tz, call>>

\* Where the Coordinator goes after a step of the wrapper around _download_video.
AfterDownloadStep(r) ==
    IF r.state = "calling" THEN "dl_extract"
    ELSE IF r.state = "raised" THEN "dl_failed"
    ELSE "check_file"

\* _download_video, lines 120-149: one invocation up to the DOWNLOADING write.
DlExtract ==
    /\ pc = "dl_extract"
    /\ engineCalls' = engineCalls + 1
    /\ \E o \in ExtractOutcomes :
          IF o.kind = "info"
          THEN /\ media' = AddOrUpdateMediaItem(media, conn, url, TitleOf(url), None,
                                                "DOWNLOADING", IdOf(url), NoMsg)
               /\ pc' = "dl_download"
               /\ UNCHANGED <<rt, dlRes>>
          ELSE LET r == RetryStep(DownloadRetry, rt,
                                  Raised(ExtractFailure(o, url, rt.calls + 1)))
               IN  /\ pc' = AfterDownloadStep(r)
                   /\ rt' = IF r.state = "calling" THEN r ELSE RetryIdle
                   /\ dlRes' = IF r.state = "calling" THEN dlRes ELSE r
                   /\ UNCHANGED media
    /\ UNCHANGED <<uploads, conn, disk, runs, items, urls, idx, uploaders, item_details,
                   download_needed, processed, uidx, cache, upRes>>
    /\ UNCHANGED <<cur, ended, targetCalls, lastEvent, row0, uploads0, file0>>
    /\ UNCHANGED <<now, tz, call>>

\* _download_video, lines 151-168: ydl.download with its progress hook, and
\* the return or the exception of the invocation.
DlDownload ==
    /\ pc = "dl_download"
    /\ \E o \in DownloadOutcomes :
          LET at == rt.calls + 1
              hooked == IF o.kind = "finished" THEN HookFinished(media, conn, url)
                        ELSE IF o.kind \in {"error_event", "error_event_raise"}
                        THEN HookError(media, conn, url, o.text)
                        ELSE media
              out == IF o.kind \in {"finished", "error_event"}
                     THEN Returned(GetLocalPath(hooked, uploads, conn, url))
                     ELSE Raised(DownloadVideoHandler(
                                   Exc(IF o.kind = "raise_unclassified"
                                       THEN "ValueError" ELSE "DownloadError",
                                       <<o.text>>, at), url, at))
              r == RetryStep(DownloadRetry, rt, out)
          IN  /\ media' = hooked
              /\ disk' = IF o.kind = "finished" THEN disk \cup {PathOf(url)} ELSE disk
              /\ cache' = IF o.kind = "finished" THEN cache \cup {url} ELSE cache
              /\ lastEvent' = IF o.kind = "finished" THEN "finished"
                               ELSE IF o.kind \in {"raise", "raise_unclassified"}
                               THEN lastEvent
                               ELSE "error"
              /\ pc' = AfterDownloadStep(r)
              /\ rt' = IF r.state = "calling" THEN r ELSE RetryIdle
              /\ dlRes' = IF r.state = "calling" THEN dlRes ELSE r
    /\ UNCHANGED <<uploads, conn, runs, items, urls, idx, uploaders, item_details,
                   download_needed, processed, uidx, upRes>>
    /\ UNCHANGED <<cur, ended, engineCalls, targetCalls, row0, uploads0, file0>>
    /\ UNCHANGED <<now, tz, call>>

\* A variant of lines 246-256 that records the failure and lets the exception
\* leave download_videos.
DlFailedAborts ==
    /\ pc = "dl_failed"
    /\ media' = AddOrUpdateMediaItem(media, conn, url, None, None,
                                     "FAILED_DOWNLOAD", None, dlRes.exc.msg)
    /\ pc' = "finished"
    /\ UNCHANGED <<uploads, conn, disk, runs, items, urls, idx, uploaders, item_details,
                   download_needed, processed, uidx, cache, rt, dlRes, upRes>>
    /\ UNCHANGED histVars
    /\ UNCHANGED <<now, tz, call>>

\* Lines 246-256: the download call raised.
DlFailed ==
    /\ pc = "dl_failed"
    /\ media' = AddOrUpdateMediaItem(media, conn, url, None, None,
                                     "FAILED_DOWNLOAD", None, dlRes.exc.msg)
    /\ pc' = "finally"
    /\ UNCHANGED <<uploads, conn, disk, runs, items, urls, idx, uploaders, item_details,
                   download_needed, processed, uidx, cache, rt, dlRes, upRes>>
    /\ UNCHANGED histVars
    /\ UNCHANGED <<now, tz, call>>

\* Lines 258-268: the local file the uploads use, or None.
RetrievedLocalFilePath(m, u, c, d, cached, l) ==
    LET from_cache == IF l \in cached THEN PathOf(l) ELSE None
        db_path == GetLocalPath(m, u, c, l)
    IN  IF from_cache # None /\ PathExists(d, from_cache) THEN from_cache
        ELSE IF db_path # None /\ PathExists(d, db_path) THEN db_path
        ELSE None

FileNotFoundMsg == <<"File not found post-download attempt or hook failure.">>

\* Lines 258-301: after the download step, find the local file; without one,
\* record the failure and leave the locator.  The value the download call
\* returned is not kept (line 245).
CheckFile ==
    /\ pc = "check_file"
    /\ IF RetrievedLocalFilePath(media, uploads, conn, disk, cache, url) = None
       THEN /\ media' = IF item_details.exists /\ item_details.status = "FAILED_DOWNLOAD"
                        THEN media
                        ELSE AddOrUpdateMediaItem(media, conn, url, None, None,
                                                  "FAILED_DOWNLOAD", None, FileNotFoundMsg)
            /\ pc' = "finally"
            /\ UNCHANGED <<uidx, processed>>
       ELSE IF uploaders # <<>>
       THEN /\ uidx' = 1
            /\ pc' = "up_check"
            /\ UNCHANGED <<media, processed>>
       ELSE \* lines 382-387
            /\ processed' = TRUE
            /\ pc' = "finally"
            /\ UNCHANGED <<media, uidx>>
    /\ dlRes' = RetryIdle
    /\ UNCHANGED <<uploads, conn, disk, runs, items, urls, idx, uploaders, item_details,
                   download_needed, cache, rt, upRes>>
    /\ UNCHANGED histVars
    /\ UNCHANGED <<now, tz, call>>

\* A variant of line 304 that takes the destinations from the end of the
\* configured list.
uploader_id_last_first == uploaders[Len(uploaders) + 1 - uidx]

uploader_id == uploaders[uidx]

\* The end of one turn of the loop of line 303: the next uploader, or line 387.
NextUploader ==
    IF uidx < Len(uploaders)
    THEN /\ uidx' = uidx + 1
         /\ pc' = "up_check"
         /\ UNCHANGED processed
    ELSE /\ processed' = TRUE
         /\ pc' = "finally"
         /\ UNCHANGED uidx

\* A variant of lines 303-329 without the skip of a SUCCESS record, whose
\* PENDING write is committed.
UpCheckNoSkip ==
    /\ pc = "up_check"
    /\ uploads' = [uploads EXCEPT ![url][uploader_id] =
                      [exists |-> TRUE, status |-> "PENDING",
                       uploaded_id |-> None, retry_count |-> 0]]
    /\ rt' = RetryBegin(UploadRetry)
    /\ pc' = "up_attempt"
    /\ UNCHANGED <<media, conn, disk, runs, items, urls, idx, uploaders, item_details,
                   download_needed, processed, uidx, cache, dlRes, upRes>>
    /\ UNCHANGED histVars
    /\ UNCHANGED <<now, tz, call>>

\* Lines 303-329: the fresh read of the record of the uploader in turn, the
\* skip of a SUCCESS record, the PENDING write.
UpCheck ==
    /\ pc = "up_check"
    /\ LET fresh_item_details == GetMediaItemDetails(media, uploads, conn, url)
       IN  IF UploadStatusOf(fresh_item_details, uploader_id) = "SUCCESS"
           THEN /\ NextUploader
                /\ UNCHANGED <<uploads, rt>>
           ELSE /\ uploads' = UpdateUploadStatus(uploads, conn, url, uploader_id,
                                                 "PENDING", None, NoMsg)
                /\ rt' = RetryBegin(UploadRetry)
                /\ pc' = "up_attempt"
                /\ UNCHANGED <<uidx, processed>>
    /\ UNCHANGED <<media, conn, disk, runs, items, urls, idx, uploaders, item_details,
                   download_needed, cache, dlRes, upRes>>
    /\ UNCHANGED histVars
    /\ UNCHANGED <<now, tz, call>>

\* Line 346 through the wrapper of base.py:77-125: one invocation of the body
\* of upload_video.
UpAttempt ==
    /\ pc = "up_attempt"
    /\ targetCalls' = [targetCalls EXCEPT ![uploader_id] = @ + 1]
    /\ \E o \in UploadOutcomes :
          LET out == IF o.kind = "id" THEN Returned(CloudId(uploader_id))
                     ELSE IF o.kind = "noid" THEN Returned(None)
                     ELSE Raised(Exc(o.type, <<"upload failed">>, rt.calls + 1))
              r == RetryStep(UploadRetry, rt, out)
          IN  /\ pc' = IF r.state = "calling" THEN "up_attempt" ELSE "up_record"
              /\ rt' = IF r.state = "calling" THEN r ELSE RetryIdle
              /\ upRes' = IF r.state = "calling" THEN upRes
                          ELSE [upRes EXCEPT ![uploader_id] = r]
    /\ UNCHANGED <<media, uploads, conn, disk, runs, items, urls, idx, uploaders,
                   item_details, download_needed, processed, uidx, cache, dlRes>>
    /\ UNCHANGED <<cur, ended, engineCalls, lastEvent, row0, uploads0, file0>>
    /\ UNCHANGED <<now, tz, call>>

\* Lines 351-381: the upload_status table after the outcome r of the upload
\* call is recorded.
RecordUpload(u, c, l, d, r) ==
    IF r.state = "returned" /\ r.value # None
    THEN UpdateUploadStatus(u, c, l, d, "SUCCESS", r.value, NoMsg)
    ELSE IF r.state = "returned"
    THEN UpdateUploadStatus(u, c, l, d, "FAILED", "FAILED_NO_ID", NoMsg)
    ELSE UpdateUploadStatus(u, c, l, d, "FAILED", ErrorId(r.exc), NoMsg)

UpRecord ==
    /\ pc = "up_record"
    /\ uploads' = RecordUpload(uploads, conn, url, uploader_id, upRes[uploader_id])
    /\ NextUploader
    /\ UNCHANGED <<media, conn, disk, runs, items, urls, idx, uploaders, item_details,
                   download_needed, cache, rt, dlRes, upRes>>
    /\ UNCHANGED histVars
    /\ UNCHANGED <<now, tz, call>>

\* Lines 400-405, and the next turn of the loop of line 193 or the end of
\* the run.
Finally ==
    /\ pc = "finally"
    /\ media' = IF processed \/ download_needed = "True"
                THEN UpdateItemStatusIfAllUploadsDone(media, uploads, conn, url, uploaders)
                ELSE media
    /\ ended' = TRUE
    /\ processed' = FALSE
    /\ IF idx < Len(urls)
       THEN /\ idx' = idx + 1
            /\ pc' = "load"
            /\ UNCHANGED <<cache, rt, download_needed, item_details, uidx>>
       ELSE /\ pc' = "finished"
            /\ UNCHANGED idx
            /\ cache' = {}
            /\ rt' = RetryIdle
            /\ download_needed' = "unbound"
            /\ item_details' = NoDetails
            /\ uidx' = 0
    /\ UNCHANGED <<uploads, conn, disk, runs, items, urls, uploaders, dlRes, upRes>>
    /\ UNCHANGED <<cur, engineCalls, targetCalls, lastEvent, row0, uploads0, file0>>
    /\ UNCHANGED <<now, tz, call>>

\* The process is terminated at any point of a run: what is in memory is lost.
Crash ==
    /\ ~BetweenRuns
    /\ pc' = "crashed"
    /\ ResetMemory
    /\ ResetHistory
    /\ dlRes' = RetryIdle
    /\ upRes' = NoUpRes
    /\ UNCHANGED <<media, uploads, conn, disk, runs, items, urls, idx, uploaders>>
    /\ UNCHANGED <<now, tz, call>>

Next ==
    \/ StartRun
    \/ DeleteFile
    \/ LoadItem
    \/ DlExtract
    \/ DlDownload
    \/ DlFailed
    \/ CheckFile
    \/ UpCheck
    \/ UpAttempt
    \/ UpRecord
    \/ Finally
    \/ Crash

Spec == Init /\ [][Next]_vars

-----------------------------------------------------------------------------
(* One run over a batch, in a process that is not terminated: the loop of   *)
(* line 193 goes on as long as it has a statement to execute.               *)

StartBatch == runs = 0 /\ StartRun

RunStep ==
    \/ LoadItem
    \/ DlExtract
    \/ DlDownload
    \/ DlFailed
    \/ CheckFile
    \/ UpCheck
    \/ UpAttempt
    \/ UpRecord
    \/ Finally

NextBatch ==
    \/ StartBatch
    \/ RunStep

SpecBatch == Init /\ [][NextBatch]_vars /\ WF_vars(RunStep)

-----------------------------------------------------------------------------
(* The reconcile step on its own: update_item_status_if_all_uploads_done    *)
(* applied to a row of media_items and rows of upload_status drawn from the *)
(* values the columns take.  At its call site (downloader.py:400-405) a row *)
(* is COMPLETED only if the item was skipped (lines 198-209), that is with  *)
(* every enabled uploader SUCCESS; otherwise line 229 or a hook has         *)
(* rewritten the status before.                                             *)

ReconcileLocator == LocatorNames[1]

UploadRowOf(st) ==
    IF st = None THEN NoUploadRow
    ELSE [exists |-> TRUE, status |-> st,
          uploaded_id |-> IF st = "SUCCESS" THEN "cloud_id" ELSE None,
          retry_count |-> 0]

MediaRowOf(st, path) ==
    [exists |-> TRUE, status |-> st, title |-> "title", local_path |-> path,
     yt_dlp_id |-> "ytid", error_message |-> NoMsg, retry_count |-> 0]

AllSuccess(u, l, ids) ==
    \A k \in 1..Len(ids) : u[l][ids[k]].exists /\ u[l][ids[k]].status = "SUCCESS"

InitReconcile ==
    /\ \E st \in MediaStatusValues, path \in {None, PathOf(ReconcileLocator)},
          ust \in [UploaderIds -> UploadStatusValues \cup {None}],
          enabled \in SUBSET UploaderIds :
          /\ uploaders = SelectSeq(AllUploaders, LAMBDA d : d \in enabled)
          /\ uploads = [l \in Locators |->
                           IF l = ReconcileLocator
                           THEN [d \in UploaderIds |-> UploadRowOf(ust[d])]
                           ELSE NoUploadRows]
          /\ media = [l \in Locators |->
                         IF l = ReconcileLocator THEN MediaRowOf(st, path)
                         ELSE NoMediaRow]
          /\ st = "COMPLETED" => /\ enabled # {}
                                 /\ \A d \in enabled : ust[d] = "SUCCESS"
          /\ disk = IF path = None THEN {} ELSE {path}
    /\ conn = TRUE
    /\ pc = "reconcile"
    /\ runs = 1
    /\ items = 1
    /\ urls = <<ReconcileLocator>>
    /\ idx = 1
    /\ item_details = NoDetails
    /\ download_needed = "unbound"
    /\ processed = TRUE
    /\ uidx = 0
    /\ cache = {}
    /\ rt = RetryIdle
    /\ dlRes = RetryIdle
    /\ upRes = NoUpRes
    /\ cur = ReconcileLocator
    /\ ended = FALSE
    /\ engineCalls = 0
    /\ targetCalls = NoTargetCalls
    /\ lastEvent = "none"
    /\ row0 = media[ReconcileLocator]
    /\ uploads0 = uploads[ReconcileLocator]
    /\ file0 = (disk # {})
    /\ now = 0
    /\ tz = 0
    /\ call = NoCall

\* Line 403: the call of update_item_status_if_all_uploads_done.
Reconcile ==
    /\ pc = "reconcile"
    /\ media' = UpdateItemStatusIfAllUploadsDone(media, uploads, conn, url, uploaders)
    /\ pc' = "reconciled"
    /\ ended' = TRUE
    /\ UNCHANGED <<uploads, conn, disk, runs, items, urls, idx, uploaders,
                   item_details, download_needed, processed, uidx, cache, rt,
                   dlRes, upRes>>
    /\ UNCHANGED <<cur, engineCalls, targetCalls, lastEvent, row0, uploads0, file0>>
    /\ UNCHANGED <<now, tz, call>>

NextReconcile == Reconcile

SpecReconcile == InitReconcile /\ [][NextReconcile]_vars

-----------------------------------------------------------------------------
(* One run of the Coordinator over a store as it finds it: the database     *)
(* file outlives the process, and its rows are drawn from the values the    *)
(* columns of media_items and upload_status take.  An upload row belongs to *)
(* a media row (the foreign key of line 73).                                *)

StoredLocator == LocatorNames[1]

\* The statuses of an item whose download finished in an earlier run, and the
\* statuses of the record of an upload that ended.
StoredStatuses == {"COMPLETED", "DOWNLOADED", "UPLOAD_PENDING"}
StoredUploadStatuses == {None, "SUCCESS", "FAILED"}

InitStored ==
    /\ \E st \in StoredStatuses, ust \in [UploaderIds -> StoredUploadStatuses] :
          /\ uploads = [l \in Locators |->
                           IF l = StoredLocator
                           THEN [u \in UploaderIds |-> UploadRowOf(ust[u])]
                           ELSE NoUploadRows]
          /\ media = [l \in Locators |->
                         IF l = StoredLocator
                         THEN MediaRowOf(st, PathOf(StoredLocator))
                         ELSE NoMediaRow]
    /\ disk = {PathOf(StoredLocator)}
    /\ conn = TRUE
    /\ pc = "idle"
    /\ runs = MaxRuns - 1
    /\ items = MaxItems - 1
    /\ urls = <<>>
    /\ idx = 0
    /\ uploaders = <<>>
    /\ item_details = NoDetails
    /\ download_needed = "unbound"
    /\ processed = FALSE
    /\ uidx = 0
    /\ cache = {}
    /\ rt = RetryIdle
    /\ dlRes = RetryIdle
    /\ upRes = NoUpRes
    /\ cur = None
    /\ ended = FALSE
    /\ engineCalls = 0
    /\ targetCalls = NoTargetCalls
    /\ lastEvent = "none"
    /\ row0 = NoMediaRow
    /\ uploads0 = NoUploadRows
    /\ file0 = FALSE
    /\ now = 0
    /\ tz = 0
    /\ call = NoCall

SpecStored == InitStored /\ [][Next]_vars

-----------------------------------------------------------------------------
(* Runs of a process whose StateManager could not connect: _connect,        *)
(* lines 21-34, leaves _conn = None and the construction goes on.           *)

InitNoConn ==
    /\ media = [l \in Locators |-> NoMediaRow]
    /\ uploads = [l \in Locators |-> NoUploadRows]
    /\ conn = FALSE
    /\ disk = {}
    /\ pc = "idle"
    /\ runs = 0
    /\ items = 0
    /\ urls = <<>>
    /\ idx = 0
    /\ uploaders = <<>>
    /\ item_details = NoDetails
    /\ download_needed = "unbound"
    /\ processed = FALSE
    /\ uidx = 0
    /\ cache = {}
    /\ rt = RetryIdle
    /\ dlRes = RetryIdle
    /\ upRes = NoUpRes
    /\ cur = None
    /\ ended = FALSE
    /\ engineCalls = 0
    /\ targetCalls = NoTargetCalls
    /\ lastEvent = "none"
    /\ row0 = NoMediaRow
    /\ uploads0 = NoUploadRows
    /\ file0 = FALSE
    /\ now = 0
    /\ tz = 0
    /\ call = NoCall

SpecNoConn == InitNoConn /\ [][Next]_vars

-----------------------------------------------------------------------------
(* with_retry on its own: error_handler.py:110-167 applied to an operation *)
(* whose every invocation may return or raise, under drawn parameters.     *)

MaxAttemptsBound == 4

\* The parameters a decoration may pass (lines 112-117).
RetryPolicies ==
    [max_attempts : -1..MaxAttemptsBound,
     initial_delay : {InitialDelay, 5},
     max_delay : {3, MaxDelay},
     backoff_factor : {BackoffFactor},
     retryable : {{"RetryableError"}, {"NetworkError"}, {"UploadError"}},
     on_retry : BOOLEAN]

\* The classes the wrapped operation may raise.
RetryRaises == {"NetworkError", "UploadTimeoutError", "ValidationError", "ValueError"}

\* What the k-th invocation of the wrapped operation returns.
ResultOf(k) == <<"result", k>>

\* The outcomes of the k-th invocation of the wrapped operation.
RetryOutcomes(k) ==
    {Returned(ResultOf(k))}
    \cup {Raised(Exc(t, <<"failed">>, k)) : t \in RetryRaises}

InitRetry ==
    /\ media = [l \in Locators |-> NoMediaRow]
    /\ uploads = [l \in Locators |-> NoUploadRows]
    /\ conn = TRUE
    /\ disk = {}
    /\ pc = "retry"
    /\ runs = 0
    /\ items = 0
    /\ urls = <<>>
    /\ idx = 0
    /\ uploaders = <<>>
    /\ item_details = NoDetails
    /\ download_needed = "unbound"
    /\ processed = FALSE
    /\ uidx = 0
    /\ cache = {}
    /\ \E p \in RetryPolicies : rt = [RetryIdle EXCEPT !.policy = p]
    /\ dlRes = RetryIdle
    /\ upRes = NoUpRes
    /\ cur = None
    /\ ended = FALSE
    /\ engineCalls = 0
    /\ targetCalls = NoTargetCalls
    /\ lastEvent = "none"
    /\ row0 = NoMediaRow
    /\ uploads0 = NoUploadRows
    /\ file0 = FALSE
    /\ now = 0
    /\ tz = 0
    /\ call = NoCall

\* The decorated function is called: wrapper, lines 135-139.
RetryCall ==
    /\ pc = "retry"
    /\ rt.state = "idle"
    /\ rt' = RetryBegin(rt.policy)
    /\ UNCHANGED <<media, uploads, conn, disk, pc, runs, items, urls, idx,
                   uploaders, item_details, download_needed, processed, uidx,
                   cache, dlRes, upRes>>
    /\ UNCHANGED histVars
    /\ UNCHANGED <<now, tz, call>>

\* One iteration of the loop: func is invoked (line 141) and its outcome is
\* handled (lines 142-162).  lastEvent keeps how the wrapper's except clauses
\* class the outcome.
RetryInvoke ==
    /\ pc = "retry"
    /\ rt.state = "calling"
    /\ \E out \in RetryOutcomes(rt.calls + 1) :
          /\ rt' = RetryStep(rt.policy, rt, out)
          /\ lastEvent' = IF out.kind = "return" THEN "return"
                          ELSE IF IsInstanceOfAny(out.exc.type, rt.policy.retryable)
                               THEN "raise_retryable"
                               ELSE "raise_other"
    /\ UNCHANGED <<media, uploads, conn, disk, pc, runs, items, urls, idx,
                   uploaders, item_details, download_needed, processed, uidx,
                   cache, dlRes, upRes>>
    /\ UNCHANGED <<cur, ended, engineCalls, targetCalls, row0, uploads0, file0>>
    /\ UNCHANGED <<now, tz, call>>

NextRetry == RetryCall \/ RetryInvoke

SpecRetry == InitRetry /\ [][NextRetry]_vars

-----------------------------------------------------------------------------
(* categorize_error on its own: error_handler.py:170-191 applied to drawn  *)
(* exceptions.                                                             *)

ErrorCategories == {"temporary", "permanent", "unknown"}

\* The classes of error_handler.py:17-104.
TaxonomyClasses ==
    {t \in DOMAIN ExceptionBase :
        IsInstance(t, "RetryableError") \/ IsInstance(t, "NonRetryableError")}

\* The default of the category parameter of __init__, lines 20 and 28.
DefaultCategory(t) ==
    IF IsInstance(t, "RetryableError") THEN "temporary"
    ELSE IF IsInstance(t, "NonRetryableError") THEN "permanent"
    ELSE None

\* An exception object: given is the category argument of the constructor
\* call (None when left out), category the attribute __init__ sets
\* (lines 22 and 30; other classes have none).
NewError(t, given) ==
    [type |-> t, given |-> given,
     category |-> IF t \in TaxonomyClasses
                  THEN (IF given # None THEN given ELSE DefaultCategory(t))
                  ELSE None]

CategorizeInputs ==
    {NewError(t, g) : t \in TaxonomyClasses, g \in ErrorCategories \cup {None}}
    \cup {NewError(t, None) : t \in (DOMAIN ExceptionBase) \ TaxonomyClasses}

\* A variant that answers from the class alone.
CategorizeErrorByClass(e) ==
    IF IsInstance(e.type, "RetryableError") THEN "temporary"
    ELSE IF IsInstance(e.type, "NonRetryableError") THEN "permanent"
    ELSE IF IsInstanceOfAny(e.type, {"ConnectionError", "TimeoutError"})
         THEN "temporary"
    ELSE IF IsInstanceOfAny(e.type, {"ValueError", "TypeError", "AttributeError"})
         THEN "permanent"
    ELSE "unknown"

\* categorize_error, lines 170-191.
CategorizeError(e) ==
    IF IsInstance(e.type, "RetryableError") THEN e.category
    ELSE IF IsInstance(e.type, "NonRetryableError") THEN e.category
    ELSE IF IsInstanceOfAny(e.type, {"ConnectionError", "TimeoutError"})
         THEN "temporary"
    ELSE IF IsInstanceOfAny(e.type, {"ValueError", "TypeError", "AttributeError"})
         THEN "permanent"
    ELSE "unknown"

InitCategorize ==
    /\ media = [l \in Locators |-> NoMediaRow]
    /\ uploads = [l \in Locators |-> NoUploadRows]
    /\ conn = TRUE
    /\ disk = {}
    /\ pc = "categorize"
    /\ runs = 0
    /\ items = 0
    /\ urls = <<>>
    /\ idx = 0
    /\ uploaders = <<>>
    /\ item_details = NoDetails
    /\ download_needed = "unbound"
    /\ processed = FALSE
    /\ uidx = 0
    /\ cache = {}
    /\ rt = RetryIdle
    /\ dlRes = RetryIdle
    /\ upRes = NoUpRes
    /\ cur = None
    /\ ended = FALSE
    /\ engineCalls = 0
    /\ targetCalls = NoTargetCalls
    /\ lastEvent = "none"
    /\ row0 = NoMediaRow
    /\ uploads0 = NoUploadRows
    /\ file0 = FALSE
    /\ now = 0
    /\ tz = 0
    /\ \E e \in CategorizeInputs :
          call = [op |-> "categorize_error", arg |-> e, done |-> FALSE, ret |-> None]

\* categorize_error(error) runs and returns.
Categorize ==
    /\ call.op = "categorize_error"
    /\ ~call.done
    /\ call' = [call EXCEPT !.done = TRUE, !.ret = CategorizeError(call.arg)]
    /\ UNCHANGED <<media, uploads, conn, disk, pc, runs, items, urls, idx,
                   uploaders, item_details, download_needed, processed, uidx,
                   cache, rt, dlRes, upRes, now, tz>>
    /\ UNCHANGED histVars

NextCategorize == Categorize

SpecCategorize == InitCategorize /\ [][NextCategorize]_vars

-----------------------------------------------------------------------------
(* The store on its own: the operations of state_manager.py on rows with   *)
(* all their columns, called in any order with drawn arguments while the   *)
(* clock advances.                                                         *)

MaxClock == 3
MaxStoreOps == 2

\* The length of a day, in steps of the clock.
DayLength == 2

\* The offsets of local time from UTC a host may have, in steps of the clock.
HostOffsets == {-1, 0, 1}

\* datetime.datetime.now(): the naive local time.
LocalNow == now + tz

\* CURRENT_TIMESTAMP in sqlite: the UTC time.
CurrentTimestamp == now

\* A timestamp column that is NULL.
NoTime == -1

\* A row of media_items with every column of lines 46-58.
NoItemRow ==
    [exists |-> FALSE, title |-> None, download_timestamp |-> NoTime,
     local_path |-> None, status |-> None, last_attempt_timestamp |-> NoTime,
     yt_dlp_id |-> None, error_message |-> NoMsg, retry_count |-> 0,
     last_error_timestamp |-> NoTime, metadata |-> None, created_at |-> NoTime,
     updated_at |-> NoTime]

\* A row of upload_status with every column of lines 61-72.
NoRecordRow ==
    [exists |-> FALSE, uploaded_id |-> None, upload_timestamp |-> NoTime,
     status |-> None, retry_count |-> 0, last_error_timestamp |-> NoTime,
     metadata |-> None, created_at |-> NoTime, updated_at |-> NoTime]

NoRecordRows == [d \in UploaderIds |-> NoRecordRow]

\* COALESCE(excluded.x, x) on a timestamp column
CoalesceTime(new, old) == IF new # NoTime THEN new ELSE old

\* The SQL comparison x = v is true only when neither side is NULL and the
\* values are the same.
SqlEquals(xIsNull, vIsNull, same) == ~xIsNull /\ ~vIsNull /\ same

\* CASE x WHEN 'DOWNLOADED' THEN a ELSE b END
CaseWhenDownloaded(x, a, b) ==
    IF SqlEquals(x = None, FALSE, x = "DOWNLOADED") THEN a ELSE b

\* CASE x WHEN NULL THEN a ELSE b END, x being NULL or not
CaseWhenNull(xIsNull, a, b) ==
    IF SqlEquals(xIsNull, TRUE, xIsNull) THEN a ELSE b

\* add_or_update_media_item, lines 100-169, on full rows.  t is the value of
\* datetime.now() (line 112); created_at takes the column default, the
\* CURRENT_TIMESTAMP utc, on insert.
AddOrUpdateMediaItemRow(m, c, t, utc, video_url, title, local_path, status, yt_dlp_id, error_message, metadata) ==
    IF ~c THEN m
    ELSE LET row == m[video_url]
             prev == IF row.exists THEN row.retry_count ELSE 0
             retry_count == IF error_message # NoMsg THEN prev + 1 ELSE prev
             excluded ==
                 [exists |-> TRUE,
                  title |-> title,
                  download_timestamp |-> IF status = "DOWNLOADED" THEN t ELSE NoTime,
                  local_path |-> local_path,
                  status |-> status,
                  last_attempt_timestamp |-> t,
                  yt_dlp_id |-> yt_dlp_id,
                  error_message |-> error_message,
                  retry_count |-> retry_count,
                  last_error_timestamp |-> IF error_message # NoMsg THEN t ELSE NoTime,
                  metadata |-> metadata,
                  created_at |-> utc,
                  updated_at |-> t]
         IN  [m EXCEPT ![video_url] =
                 IF ~row.exists THEN excluded
                 ELSE [row EXCEPT
                          !.title = Coalesce(excluded.title, @),
                          !.local_path = Coalesce(excluded.local_path, @),
                          !.status = excluded.status,
                          !.yt_dlp_id = Coalesce(excluded.yt_dlp_id, @),
                          !.download_timestamp =
                              CaseWhenDownloaded(excluded.status,
                                  CoalesceTime(excluded.download_timestamp, @), @),
                          !.last_attempt_timestamp = excluded.last_attempt_timestamp,
                          !.error_message = excluded.error_message,
                          !.retry_count = excluded.retry_count,
                          !.last_error_timestamp =
                              CaseWhenNull(excluded.error_message = NoMsg, @,
                                           excluded.last_attempt_timestamp),
                          !.metadata =
                              CaseWhenNull(excluded.metadata = None, @,
                                           excluded.metadata),
                          !.updated_at = excluded.updated_at]]

\* update_upload_status, lines 171-235, on full rows.  The statement names
\* excluded.error_message; when it does not prepare, the sqlite3.Error is
\* caught at line 231 and nothing is written.
UpdateUploadStatusRow(u, c, t, utc, video_url, uid, status, uploaded_id, error_message, metadata) ==
    IF ~c THEN u
    ELSE IF ~UploadUpsertPrepares THEN u
    ELSE LET row == u[video_url][uid]
             prev == IF row.exists THEN row.retry_count ELSE 0
             retry_count == IF error_message # NoMsg THEN prev + 1 ELSE prev
             excluded ==
                 [exists |-> TRUE,
                  uploaded_id |-> uploaded_id,
                  upload_timestamp |-> IF status = "SUCCESS" THEN t ELSE NoTime,
                  status |-> status,
                  retry_count |-> retry_count,
                  last_error_timestamp |-> IF error_message # NoMsg THEN t ELSE NoTime,
                  metadata |-> metadata,
                  created_at |-> utc,
                  updated_at |-> t]
         IN  [u EXCEPT ![video_url][uid] =
                 IF ~row.exists THEN excluded
                 ELSE [row EXCEPT
                          !.status = excluded.status,
                          !.uploaded_id = excluded.uploaded_id,
                          !.upload_timestamp = excluded.upload_timestamp,
                          !.retry_count = excluded.retry_count,
                          !.last_error_timestamp =
                              CaseWhenNull(error_message = NoMsg, @,
                                           excluded.updated_at),
                          !.metadata =
                              CaseWhenNull(excluded.metadata = None, @,
                                           excluded.metadata),
                          !.updated_at = excluded.updated_at]]

\* _connect, lines 21-34, issues no PRAGMA foreign_keys = ON: the connection
\* keeps sqlite's default, under which ON DELETE CASCADE (line 73) is not
\* enforced.
ForeignKeysOn == FALSE

\* cleanup_old_items, lines 319-340: the rows the DELETE selects; t is the
\* value of datetime.now() and the cutoff is t - timedelta(days).
CleanupSelects(m, t, days) ==
    {l \in Locators :
        /\ m[l].exists
        /\ m[l].created_at < t - days * DayLength
        /\ m[l].status \in {"COMPLETED", "FAILED_DOWNLOAD"}}

\* cleanup_old_items: media_items after the DELETE.
CleanupOldItems(m, c, t, days) ==
    IF ~c THEN m
    ELSE [l \in Locators |-> IF l \in CleanupSelects(m, t, days) THEN NoItemRow ELSE m[l]]

\* cleanup_old_items: upload_status after the DELETE on media_items.
CleanupCascade(m, u, c, t, days) ==
    IF ~c \/ ~ForeignKeysOn THEN u
    ELSE [l \in Locators |-> IF l \in CleanupSelects(m, t, days) THEN NoRecordRows ELSE u[l]]

\* cleanup_old_items: cur.rowcount, the number of rows of media_items the
\* DELETE removed (0 without a connection).
CleanupRowCount(m, m2, c) ==
    IF ~c THEN 0
    ELSE Cardinality({l \in Locators : m[l].exists /\ ~m2[l].exists})

\* The optional arguments a call of add_or_update_media_item passes.
GivenFields ==
    {{}, {"title"}, {"metadata"}, {"local_path", "yt_dlp_id"},
     {"title", "local_path", "yt_dlp_id", "metadata"}}

\* The value call number n passes for a field it gives.
FieldValues == <<"value1", "value2", "value3", "value4">>
ValueOf(field, given, n) == IF field \in given THEN FieldValues[n] ELSE None

StoreStatuses == {"DOWNLOADED", "COMPLETED", "FAILED_DOWNLOAD"}

ErrorTexts == {NoMsg, <<"failed">>}

StoreIdle ==
    [op |-> "none", seq |-> 0, url |-> None, uploader_id |-> None,
     status |-> None, error_message |-> NoMsg, given |-> {}, days |-> 0,
     at |-> 0, media0 |-> [l \in Locators |-> NoItemRow],
     uploads0 |-> [l \in Locators |-> NoRecordRows], ret |-> None]

\* The store files a process may open: a new one, or one holding a
\* completed item with a successful upload record, both written at time 0.
StoreFiles ==
    {<<[l \in Locators |-> NoItemRow], [l \in Locators |-> NoRecordRows]>>,
     <<[l \in Locators |->
           IF l = LocatorNames[1]
           THEN [NoItemRow EXCEPT !.exists = TRUE, !.title = "value0",
                                  !.local_path = "value0",
                                  !.status = "COMPLETED",
                                  !.last_attempt_timestamp = 0,
                                  !.created_at = 0, !.updated_at = 0]
           ELSE NoItemRow],
       [l \in Locators |->
           IF l = LocatorNames[1]
           THEN [NoRecordRows EXCEPT ![AllUploaders[1]] =
                    [NoRecordRow EXCEPT !.exists = TRUE, !.status = "SUCCESS",
                                        !.uploaded_id = CloudId(AllUploaders[1]),
                                        !.upload_timestamp = 0,
                                        !.created_at = 0, !.updated_at = 0]]
           ELSE NoRecordRows]>>}

InitStoreOps ==
    /\ \E f \in StoreFiles : media = f[1] /\ uploads = f[2]
    /\ conn = TRUE
    /\ disk = {}
    /\ pc = "store"
    /\ runs = 0
    /\ items = 0
    /\ urls = <<>>
    /\ idx = 0
    /\ uploaders = <<>>
    /\ item_details = NoDetails
    /\ download_needed = "unbound"
    /\ processed = FALSE
    /\ uidx = 0
    /\ cache = {}
    /\ rt = RetryIdle
    /\ dlRes = RetryIdle
    /\ upRes = NoUpRes
    /\ cur = None
    /\ ended = FALSE
    /\ engineCalls = 0
    /\ targetCalls = NoTargetCalls
    /\ lastEvent = "none"
    /\ row0 = NoMediaRow
    /\ uploads0 = NoUploadRows
    /\ file0 = FALSE
    /\ now = 1
    /\ tz \in HostOffsets
    /\ call = StoreIdle

StoreFrame ==
    UNCHANGED <<conn, disk, pc, runs, items, urls, idx, uploaders, item_details,
                download_needed, processed, uidx, cache, rt, dlRes, upRes,
                cur, ended, engineCalls, targetCalls, lastEvent, row0,
                uploads0, file0, tz>>

\* Time passes.
Tick ==
    /\ pc = "store"
    /\ now < MaxClock
    /\ now' = now + 1
    /\ UNCHANGED <<media, uploads, call>>
    /\ StoreFrame

\* A call of add_or_update_media_item.
StoreAddOrUpdate ==
    /\ pc = "store"
    /\ call.seq < MaxStoreOps
    /\ \E l \in Locators, st \in StoreStatuses, e \in ErrorTexts, g \in GivenFields :
          LET n == call.seq + 1
          IN  /\ media' = AddOrUpdateMediaItemRow(media, conn, LocalNow, CurrentTimestamp, l,
                              ValueOf("title", g, n), ValueOf("local_path", g, n),
                              st, ValueOf("yt_dlp_id", g, n), e,
                              ValueOf("metadata", g, n))
              /\ call' = [StoreIdle EXCEPT
                             !.op = "add_or_update_media_item", !.seq = n,
                             !.url = l, !.status = st, !.error_message = e,
                             !.given = g, !.at = now,
                             !.media0 = media, !.uploads0 = uploads]
    /\ UNCHANGED <<uploads, now>>
    /\ StoreFrame

\* A call of update_upload_status.
StoreUpdateUpload ==
    /\ pc = "store"
    /\ call.seq < MaxStoreOps
    /\ \E l \in Locators, d \in UploaderIds, e \in ErrorTexts :
          LET n == call.seq + 1
              st == IF e = NoMsg THEN "SUCCESS" ELSE "FAILED"
              id == IF e = NoMsg THEN CloudId(d) ELSE None
          IN  /\ uploads' = UpdateUploadStatusRow(uploads, conn, LocalNow,
                                                  CurrentTimestamp, l, d, st,
                                                  id, e, None)
              /\ call' = [StoreIdle EXCEPT
                             !.op = "update_upload_status", !.seq = n,
                             !.url = l, !.uploader_id = d, !.status = st,
                             !.error_message = e, !.at = now,
                             !.media0 = media, !.uploads0 = uploads]
    /\ UNCHANGED <<media, now>>
    /\ StoreFrame

\* A call of cleanup_old_items(days).
StoreCleanup ==
    /\ pc = "store"
    /\ call.seq < MaxStoreOps + 1
    /\ \E days \in {0, 1} :
          /\ media' = CleanupOldItems(media, conn, LocalNow, days)
          /\ uploads' = CleanupCascade(media, uploads, conn, LocalNow, days)
          /\ call' = [StoreIdle EXCEPT
                         !.op = "cleanup_old_items", !.seq = call.seq + 1,
                         !.days = days, !.at = now,
                         !.media0 = media, !.uploads0 = uploads,
                         !.ret = CleanupRowCount(media,
                                     CleanupOldItems(media, conn, LocalNow, days), conn)]
    /\ UNCHANGED now
    /\ StoreFrame

NextStoreOps == Tick \/ StoreAddOrUpdate \/ StoreUpdateUpload \/ StoreCleanup

SpecStoreOps == InitStoreOps /\ [][NextStoreOps]_vars

-----------------------------------------------------------------------------
(* from_str on its own: status.py:15-23 and 33-41 applied to drawn strings *)

StatusClasses == {"MediaStatus", "UploadStatus"}

\* The values of the members of an enum class.
StatusValuesOf(cls) ==
    IF cls = "MediaStatus" THEN MediaStatusValues ELSE UploadStatusValues

\* The strings from_str is applied to: the values of both enums, the empty
\* string, and strings that are values of neither.
FromStrInputs ==
    MediaStatusValues \cup UploadStatusValues
    \cup {"", "INVALID_STATUS", "PENDING_UPLOAD", "UPLOADING", "UNKNOWN",
          "ERROR", "pending_download", "downloaded", "completed", "Completed",
          "pending", "success", "Success", "failed", "Failed", "DONE"}

\* cls.from_str(status_str) as the outcome of the call: the ValueError of
\* cls(status_str) is caught (lines 22 and 40) and None is returned.
FromStrOutcome(cls, status_str) ==
    IF cls = "MediaStatus" THEN Returned(MediaStatusFromStr(status_str))
    ELSE Returned(UploadStatusFromStr(status_str))

InitFromStr ==
    /\ media = [l \in Locators |-> NoMediaRow]
    /\ uploads = [l \in Locators |-> NoUploadRows]
    /\ conn = TRUE
    /\ disk = {}
    /\ pc = "from_str"
    /\ runs = 0
    /\ items = 0
    /\ urls = <<>>
    /\ idx = 0
    /\ uploaders = <<>>
    /\ item_details = NoDetails
    /\ download_needed = "unbound"
    /\ processed = FALSE
    /\ uidx = 0
    /\ cache = {}
    /\ rt = RetryIdle
    /\ dlRes = RetryIdle
    /\ upRes = NoUpRes
    /\ cur = None
    /\ ended = FALSE
    /\ engineCalls = 0
    /\ targetCalls = NoTargetCalls
    /\ lastEvent = "none"
    /\ row0 = NoMediaRow
    /\ uploads0 = NoUploadRows
    /\ file0 = FALSE
    /\ now = 0
    /\ tz = 0
    /\ \E cls \in StatusClasses, str \in FromStrInputs :
          call = [op |-> "from_str", cls |-> cls, arg |-> str, done |-> FALSE,
                  out |-> Returned(None)]

\* cls.from_str(status_str) runs to its end.
FromStr ==
    /\ call.op = "from_str"
    /\ ~call.done
    /\ call' = [call EXCEPT !.done = TRUE,
                            !.out = FromStrOutcome(call.cls, call.arg)]
    /\ UNCHANGED <<media, uploads, conn, disk, pc, runs, items, urls, idx,
                   uploaders, item_details, download_needed, processed, uidx,
                   cache, rt, dlRes, upRes, now, tz>>
    /\ UNCHANGED histVars

NextFromStr == FromStr

SpecFromStr == InitFromStr /\ [][NextFromStr]_vars

-----------------------------------------------------------------------------
(* Two clients of one store file.  Each client is a StateManager with its   *)
(* own connection (lines 21-34).  A call of add_or_update_media_item runs   *)
(* two statements: the SELECT of lines 116-120, which the sqlite3 module    *)
(* runs outside a transaction, and the INSERT of lines 127-162, which opens *)
(* a transaction that the end of the with block commits.  The statements of *)
(* the two clients interleave.                                              *)

\* The calls each client makes.
MaxClientCalls == 2

Clients == {1, 2}

ClientKey == LocatorNames[1]

\* The retry_count of the row of ClientKey in the file the clients open.
ClientFiles == {-1, 0, 1}

ClientIdle ==
    [op |-> "clients", first |-> 0, errors |-> 0,
     at |-> [c \in Clients |-> "idle"],
     prev |-> [c \in Clients |-> 0],
     status |-> [c \in Clients |-> None],
     error_message |-> [c \in Clients |-> NoMsg],
     done |-> [c \in Clients |-> 0]]

InitClients ==
    /\ \E n \in ClientFiles :
          /\ media = [l \in Locators |->
                         IF l = ClientKey /\ n >= 0
                         THEN [NoItemRow EXCEPT !.exists = TRUE,
                                                !.status = "PENDING_DOWNLOAD",
                                                !.retry_count = n,
                                                !.last_attempt_timestamp = 0,
                                                !.created_at = 0, !.updated_at = 0]
                         ELSE NoItemRow]
          /\ call = [ClientIdle EXCEPT !.first = IF n >= 0 THEN n ELSE 0]
    /\ uploads = [l \in Locators |-> NoRecordRows]
    /\ conn = TRUE
    /\ disk = {}
    /\ pc = "clients"
    /\ runs = 0
    /\ items = 0
    /\ urls = <<>>
    /\ idx = 0
    /\ uploaders = <<>>
    /\ item_details = NoDetails
    /\ download_needed = "unbound"
    /\ processed = FALSE
    /\ uidx = 0
    /\ cache = {}
    /\ rt = RetryIdle
    /\ dlRes = RetryIdle
    /\ upRes = NoUpRes
    /\ cur = None
    /\ ended = FALSE
    /\ engineCalls = 0
    /\ targetCalls = NoTargetCalls
    /\ lastEvent = "none"
    /\ row0 = NoMediaRow
    /\ uploads0 = NoUploadRows
    /\ file0 = FALSE
    /\ now = 1
    /\ tz = 0

\* Lines 116-126 in client c: the call begins and reads the retry count.
ClientSelect ==
    /\ pc = "clients"
    /\ \E c \in Clients, st \in StoreStatuses, e \in ErrorTexts :
          /\ call.at[c] = "idle"
          /\ call.done[c] < MaxClientCalls
          /\ call' = [call EXCEPT
                         !.at[c] = "selected",
                         !.prev[c] = IF media[ClientKey].exists
                                     THEN media[ClientKey].retry_count ELSE 0,
                         !.status[c] = st,
                         !.error_message[c] = e]
    /\ UNCHANGED <<media, uploads, now>>
    /\ StoreFrame

\* Lines 127-162 in client c: the upsert with the retry count computed from
\* the value read, and the commit.
ClientUpsert ==
    /\ pc = "clients"
    /\ \E c \in Clients :
          /\ call.at[c] = "selected"
          /\ LET e == call.error_message[c]
                 retry_count == IF e # NoMsg THEN call.prev[c] + 1 ELSE call.prev[c]
                 written == AddOrUpdateMediaItemRow(media, conn, LocalNow, CurrentTimestamp,
                                ClientKey, None, None, call.status[c], None, e, None)
             IN  /\ media' = [written EXCEPT ![ClientKey].retry_count = retry_count]
                 /\ call' = [call EXCEPT
                                !.at[c] = "idle",
                                !.done[c] = @ + 1,
                                !.errors = IF e # NoMsg THEN @ + 1 ELSE @]
    /\ UNCHANGED <<uploads, now>>
    /\ StoreFrame

NextClients ==
    \/ ClientSelect
    \/ ClientUpsert

SpecClients == InitClients /\ [][NextClients]_vars

-----------------------------------------------------------------------------
(* Properties *)

\* The enabled destinations of the run.
Enabled == {uploaders[k] : k \in 1..Len(uploaders)}

\* The history variables are about a locator of the run in progress.
Started == cur # None

\* The upload record of destination d for the locator in turn has status st.
RecordIs(d, st) == uploads[cur][d].exists /\ uploads[cur][d].status = st

\* The outcome of the upload to d has been handed to the store
\* (lines 351-381 have run for d).
Recorded(d) ==
    /\ upRes[d].state \in {"returned", "raised"}
    /\ ~(pc = "up_record" /\ uploaders[uidx] = d)

\* The wrapper call r ended by raising after a retryable error on every
\* invocation.
Exhausted(r, p) ==
    /\ r.state = "raised"
    /\ IsInstanceOfAny(r.exc.type, p.retryable)

\* The wrapper call r ended on a first invocation that raised an exception
\* outside the retryable set.
ShortCircuited(r, p) ==
    /\ r.state = "raised"
    /\ ~IsInstanceOfAny(r.exc.type, p.retryable)
    /\ r.exc.at = 1

\* C1 (Idempotence): for every set of enabled destinations, the empty one
\* included, when a locator's item is Completed at the start of a run and
\* every enabled destination has a Success record, the run invokes neither
\* the Download Engine nor any Distribution Target for that locator.
C1_Idempotence ==
    (/\ Started
     /\ row0.exists
     /\ row0.status = "COMPLETED"
     /\ \A d \in Enabled : uploads0[d].exists /\ uploads0[d].status = "SUCCESS")
    => /\ engineCalls = 0
       /\ \A d \in UploaderIds : targetCalls[d] = 0

C4_NonRetryableDownloadFailure ==
    (/\ Started
     /\ ended
     /\ ~row0.exists
     /\ dlRes.state = "raised"
     /\ IsInstance(dlRes.exc.type, "NonRetryableError"))
    => /\ media[cur].status = "FAILED_DOWNLOAD"
       /\ \A k \in 1..Len(dlRes.exc.msg) :
              Contains(media[cur].error_message, dlRes.exc.msg[k])
       /\ \A d \in UploaderIds : ~uploads[cur][d].exists

C10_NoDestinationsCompleted ==
    (/\ Started
     /\ ended
     /\ uploaders = <<>>
     /\ \/ lastEvent = "finished"
        \/ lastEvent = "none" /\ row0.exists /\ file0 /\ row0.status = "DOWNLOADED")
    => media[cur].status = "COMPLETED"

\* A download finished in a run with no destination and the item is Completed.
C10_Witness ==
    /\ Started
    /\ ended
    /\ uploaders = <<>>
    /\ lastEvent = "finished"
    /\ engineCalls >= 1
    /\ media[cur].status = "COMPLETED"

Skipped ==
    /\ Started
    /\ row0.exists
    /\ row0.status = "COMPLETED"
    /\ Enabled # {}
    /\ \A d \in Enabled : uploads0[d].exists /\ uploads0[d].status = "SUCCESS"

\* C15 (the skip has no side effects): when a locator is skipped because it
\* is Completed and every enabled destination shows Success, its media row
\* and its upload records stay as they were and the run performs no write for
\* it, not even at the end of its processing.
C15_SkipNoSideEffects ==
    Skipped
    => /\ media[cur] = row0
       /\ uploads[cur] = uploads0
       /\ pc = "finally"
             => ~UpdateItemStatusWrites(media, uploads, conn, cur, uploaders)

\* C16 (Completed is terminal): under a fixed set of enabled destinations,
\* the empty one included, an item that is Completed for that set when a run
\* takes up its locator (every enabled destination has a Success record)
\* keeps the status Completed throughout the run.
C16_CompletedTerminal ==
    (/\ Started
     /\ row0.exists
     /\ row0.status = "COMPLETED"
     /\ \A d \in Enabled : uploads0[d].exists /\ uploads0[d].status = "SUCCESS")
    => media[cur].status = "COMPLETED"

\* The changes of status the state machine allows.
AllowedChange(a, b) ==
    \/ b = "PENDING_DOWNLOAD"
    \/ b = "DOWNLOADING" /\ a = "PENDING_DOWNLOAD"
    \/ b \in {"DOWNLOADED", "FAILED_DOWNLOAD"} /\ a = "DOWNLOADING"
    \/ b = "UPLOAD_PENDING" /\ a = "DOWNLOADED"
    \/ b = "COMPLETED" /\ a \in {"DOWNLOADED", "UPLOAD_PENDING"}

\* C17: every change of the stored status of an item follows the state
\* machine: PendingDownload may be re-entered from anywhere, Downloading is
\* reached only from PendingDownload, Downloaded and FailedDownload only from
\* Downloading, UploadPending only from Downloaded, Completed only from
\* Downloaded or UploadPending.
C17_StateMachine ==
    [][\A l \in Locators :
          media'[l].status # media[l].status
          => AllowedChange(media[l].status, media'[l].status)]_vars

\* C18 (the store fails closed): when the State Store has no connection, the
\* Coordinator invokes neither the Download Engine nor any Distribution
\* Target for the locator in turn.
C18_StoreFailsClosed ==
    (~conn /\ Started)
    => /\ engineCalls = 0
       /\ \A d \in UploaderIds : targetCalls[d] = 0

\* The class t is neither one of the retryable nor one of the non-retryable
\* error types of error_handler.py.
Unclassified(t) ==
    /\ t # None
    /\ ~IsInstance(t, "RetryableError")
    /\ ~IsInstance(t, "NonRetryableError")

\* The exception e left _download_video for an exception of an unclassified
\* type raised inside it (line 168).
FromUnclassified(e) == Contains(e.msg, "Unexpected error during download: ")

\* C19: an exception of an unclassified type raised inside the download step
\* or an upload step is not retried: no further invocation of the step
\* follows it, and the failure is recorded (for an upload, the record is
\* Failed once the outcome has been handed to the store).
C19_UnclassifiedNotRetried ==
    /\ pc \in {"dl_extract", "dl_download"} => ~FromUnclassified(rt.last_exception)
    /\ pc = "up_attempt" => ~Unclassified(rt.last_exception.type)
    /\ \A d \in UploaderIds :
          (upRes[d].state = "raised" /\ Unclassified(upRes[d].exc.type))
          => /\ upRes[d].calls = upRes[d].exc.at
             /\ Recorded(d) => RecordIs(d, "FAILED")

\* C20: when the wrapped operation raised retryable errors on its first k-1
\* invocations and returns on the k-th, 1 <= k <= max_attempts, the wrapper
\* returns the result of that k-th invocation after exactly k invocations
\* (it has not given up before the k-th, and has waited k-1 times), and the
\* operation is never invoked again.
C20_SucceedsOnKthInvocation ==
    /\ [](pc = "retry" =>
            /\ rt.state = "calling" =>
                  /\ rt.calls = rt.attempt
                  /\ rt.calls < rt.policy.max_attempts
                  /\ rt.calls > 0 => lastEvent = "raise_retryable"
            /\ lastEvent = "return" =>
                  /\ rt.state = "returned"
                  /\ rt.calls \in 1..rt.policy.max_attempts
                  /\ rt.value = ResultOf(rt.calls)
                  /\ Len(rt.waits) = rt.calls - 1
            /\ (rt.state = "raised" /\ lastEvent = "raise_retryable") =>
                  rt.calls = rt.policy.max_attempts)
    /\ [][(pc = "retry" /\ rt.state = "returned") => rt' = rt]_vars

\* The operation failed twice with a retryable error and returned on the
\* third and last allowed invocation.
C20_Witness ==
    /\ pc = "retry"
    /\ rt.policy.max_attempts = 3
    /\ rt.state = "returned"
    /\ lastEvent = "return"
    /\ rt.calls = 3
    /\ rt.value = ResultOf(3)

RECURSIVE Pow(_, _)
Pow(b, e) == IF e = 0 THEN 1 ELSE b * Pow(b, e - 1)

\* C21: in every retry sequence the k-th wait equals
\* min(initial_delay * backoff_factor^(k-1), max_delay), for all parameter
\* values; no wait exceeds max_delay; and there is one wait per failed
\* attempt that is followed by another attempt, none after the final one.
C21_Backoff ==
    pc = "retry" =>
        /\ \A k \in 1..Len(rt.waits) :
              /\ rt.waits[k] = Min(rt.policy.initial_delay
                                      * Pow(rt.policy.backoff_factor, k - 1),
                                   rt.policy.max_delay)
              /\ rt.waits[k] <= rt.policy.max_delay
        /\ rt.state = "calling" => Len(rt.waits) = rt.calls
        /\ rt.state \in {"returned", "raised"} /\ rt.calls > 0
              => Len(rt.waits) = rt.calls - 1

\* C22: when on_retry is supplied it is called exactly once for each failed
\* retryable attempt that is followed by another attempt, before the
\* operation is invoked again, with that attempt's exception and its 1-based
\* number; never after the final attempt, after a success or for a
\* non-retryable exception: a call that made n attempts produced n-1 calls
\* of on_retry.  Without on_retry nothing is notified.
C22_OnRetry ==
    pc = "retry" =>
        /\ ~rt.policy.on_retry => rt.notified = <<>>
        /\ rt.policy.on_retry =>
              /\ \A k \in 1..Len(rt.notified) :
                    /\ rt.notified[k][2] = k
                    /\ rt.notified[k][1].at = k
                    /\ IsInstanceOfAny(rt.notified[k][1].type, rt.policy.retryable)
              /\ rt.state = "calling" => Len(rt.notified) = rt.calls
              /\ rt.state \in {"returned", "raised"} /\ rt.calls > 0
                    => Len(rt.notified) = rt.calls - 1

\* With on_retry supplied, the operation failed twice with a retryable
\* error and then returned: two notifications.
C22_Witness ==
    /\ pc = "retry"
    /\ rt.policy.on_retry
    /\ rt.state = "returned"
    /\ rt.calls = 3
    /\ Len(rt.notified) = 2

\* The classes the taxonomy names as temporary and as permanent.
TemporaryErrors ==
    {"NetworkError", "UploadTimeoutError", "UploadConnectionError",
     "UploadRateLimitError"}
PermanentErrors ==
    {"AuthenticationError", "ResourceNotFoundError", "ValidationError",
     "UploadQuotaError", "UploadSizeError", "UploadFormatError",
     "UploadPermissionError"}

\* C23: categorize_error is total; for an error of the taxonomy it returns
\* the error's own category (temporary for network, upload timeout, upload
\* connection and rate-limit errors, permanent for authentication,
\* not-found, validation, quota, size, format and permission errors, when
\* constructed without a category); for other exceptions it returns
\* temporary for connection/timeout-like errors, permanent for value/type
\* shape errors and unknown for everything else.
C23_Categorize ==
    (call.op = "categorize_error" /\ call.done) =>
        LET e == call.arg
            r == call.ret
        IN  /\ r \in ErrorCategories
            /\ e.type \in TaxonomyClasses => r = e.category
            /\ e.type \in TaxonomyClasses /\ e.given # None => r = e.given
            /\ e.type \in TemporaryErrors /\ e.given = None => r = "temporary"
            /\ e.type \in PermanentErrors /\ e.given = None => r = "permanent"
            /\ e.type \in {"ConnectionError", "ConnectionResetError", "TimeoutError"}
                  => r = "temporary"
            /\ e.type \in {"ValueError", "UnicodeError", "TypeError", "AttributeError"}
                  => r = "permanent"
            /\ e.type \in {"Exception", "OSError", "LookupError", "KeyError",
                           "DownloadError"}
                  => r = "unknown"

\* A network error constructed as permanent was categorized as permanent.
C23_Witness ==
    /\ call.op = "categorize_error"
    /\ call.done
    /\ call.arg.type = "NetworkError"
    /\ call.arg.given = "permanent"
    /\ call.ret = "permanent"

\* The row a store call addressed, before and after the call.
ItemBefore == call.media0[call.url]
ItemAfter == media[call.url]
RecordBefore == call.uploads0[call.url][call.uploader_id]
RecordAfter == uploads[call.url][call.uploader_id]

\* 1 if the call carried an error message, else 0.
ErrorIncrement == IF call.error_message # NoMsg THEN 1 ELSE 0

\* C24: after add_or_update_media_item and after update_upload_status the
\* record's retry_count is its previous value (0 if the record did not
\* exist) plus exactly 1 if the call carries an error message, the previous
\* value otherwise, and the stored status is the status passed in the call.
C24_RetryCountAndStatus ==
    /\ call.op = "add_or_update_media_item" =>
          /\ ItemAfter.exists
          /\ ItemAfter.retry_count = ItemBefore.retry_count + ErrorIncrement
          /\ ItemAfter.status = call.status
    /\ call.op = "update_upload_status" =>
          /\ RecordAfter.exists
          /\ RecordAfter.retry_count = RecordBefore.retry_count + ErrorIncrement
          /\ RecordAfter.status = call.status

\* C25: after add_or_update_media_item each of title, local_path, external
\* id and metadata holds the incoming value when the call gave one, and the
\* value stored before when the call gave none.
C25_MergeDiscipline ==
    call.op = "add_or_update_media_item" =>
        \A f \in {"title", "local_path", "yt_dlp_id", "metadata"} :
            ItemAfter[f] = IF f \in call.given THEN FieldValues[call.seq]
                           ELSE ItemBefore[f]

\* C26: for a media item and for an upload record, a write without an error
\* message leaves last_error_timestamp as it was (unset on a record that
\* never had an error), and a write with an error sets it to the time of
\* the write.
C26_LastErrorTimestamp ==
    /\ call.op = "add_or_update_media_item" =>
          ItemAfter.last_error_timestamp =
              IF call.error_message # NoMsg THEN call.at + tz
              ELSE ItemBefore.last_error_timestamp
    /\ call.op = "update_upload_status" =>
          RecordAfter.last_error_timestamp =
              IF call.error_message # NoMsg THEN call.at + tz
              ELSE RecordBefore.last_error_timestamp

\* C27: after any sequence of store operations, sweeps included, every
\* upload record in the store belongs to a media item that exists.
C27_Cascade ==
    pc = "store" =>
        \A l \in Locators, d \in UploaderIds :
            uploads[l][d].exists => media[l].exists

\* The items a sweep at instant at has to remove: completed or
\* failed-download items created more than days days before.
PastRetention(row, at, days) ==
    /\ row.exists
    /\ row.status \in {"COMPLETED", "FAILED_DOWNLOAD"}
    /\ row.created_at < at - days * DayLength

\* C28: cleanup_old_items removes exactly the items whose status is
\* COMPLETED or FAILED_DOWNLOAD and whose creation time is more than the
\* given number of days before the sweep, returns the number of items
\* removed and leaves every other item untouched; and no other operation
\* deletes a media item.
C28_RetentionSweep ==
    /\ [](call.op = "cleanup_old_items" =>
            /\ \A l \in Locators :
                  IF PastRetention(call.media0[l], call.at, call.days)
                  THEN ~media[l].exists
                  ELSE media[l] = call.media0[l]
            /\ call.ret = Cardinality({l \in Locators :
                              PastRetention(call.media0[l], call.at, call.days)}))
    /\ [][\A l \in Locators :
             (media[l].exists /\ ~media'[l].exists)
             => call'.op = "cleanup_old_items"]_vars

\* C29: for every status tag of either enum from_str(tag.value) returns that
\* tag, and for a string that is not a value of the enum from_str raises an
\* error instead of returning null.
C29_FromStrTotal ==
    (call.op = "from_str" /\ call.done) =>
        IF call.arg \in StatusValuesOf(call.cls)
        THEN call.out.kind = "return" /\ call.out.value = call.arg
        ELSE call.out.kind = "raise"

C31_ReconcileLeavesDownloaded ==
    (pc = "reconciled" /\ Len(uploaders) >= 1 /\ row0.status = "DOWNLOADED")
    => media[cur].status = IF AllSuccess(uploads, cur, uploaders)
                           THEN "COMPLETED"
                           ELSE "UPLOAD_PENDING"

TurnOver(k) ==
    \/ RecordIs(uploaders[k], "SUCCESS")
    \/ upRes[uploaders[k]].state \in {"returned", "raised"}

\* C34: locators are processed in input order, one at a time, and within a
\* locator the destinations are attempted in configured order: every
\* invocation of the Download Engine or of a Distribution Target is for the
\* locator in turn, whose processing has begun and has not ended; the
\* processing of a locator begins only when that of the previous one,
\* its reconcile included, has ended; and a destination is invoked only
\* when no later destination has been invoked for the locator.
C34_InputOrder ==
    [][/\ (\/ engineCalls' > engineCalls
           \/ \E d \in UploaderIds : targetCalls'[d] > targetCalls[d])
          => (cur = urls[idx] /\ ~ended /\ idx' = idx /\ cur' = cur)
       /\ (idx' # idx /\ ~BetweenRuns)
          => (idx' = idx + 1 /\ pc = "finally" /\ ended')
       /\ (cur' # cur /\ cur' # None)
          => (cur' = urls[idx] /\ (cur = None \/ ended)
              /\ (idx > 1 => cur = urls[idx - 1]))
       /\ \A d \in UploaderIds :
             targetCalls'[d] > targetCalls[d]
             => /\ d = uploaders[uidx]
                /\ \A k \in 1..Len(uploaders) :
                      /\ k < uidx => TurnOver(k)
                      /\ k > uidx => targetCalls[uploaders[k]] = 0]_vars

\* The second locator of a batch is in the upload to its second destination,
\* after its download and its first destination, and the first locator has
\* its row.
C34_Witness ==
    /\ Started
    /\ Len(urls) = 2
    /\ idx = 2
    /\ cur = urls[2]
    /\ pc = "up_attempt"
    /\ uidx = 2
    /\ engineCalls >= 1
    /\ targetCalls[uploaders[1]] >= 1
    /\ targetCalls[uploaders[2]] >= 1
    /\ media[urls[1]].exists

C36_NoLostUpdate ==
    (/\ call.op = "clients"
     /\ \A c \in Clients : call.at[c] = "idle"
     /\ \A c \in Clients : call.done[c] >= 1
     /\ call.errors = call.done[1] + call.done[2])
    => media[ClientKey].retry_count = call.first + call.errors

\* C37: for every value of max_attempts, 0 and negative values included, a
\* call through with_retry invokes the operation at least once and ends
\* either by returning the operation's result or by raising an exception
\* that the operation itself raised.
C37_InvokedAtLeastOnce ==
    (pc = "retry" /\ rt.state \in {"returned", "raised"})
    => /\ rt.calls >= 1
       /\ rt.state = "returned" => rt.value = ResultOf(rt.calls)
       /\ rt.state = "raised" => /\ rt.exc.at \in 1..rt.calls
                                 /\ rt.exc.type \in RetryRaises

\* The statuses whose write is a failure write.
FailureStatuses == {"FAILED_DOWNLOAD", "FAILED_UPLOAD"}

C39_NoFailedUpload ==
    \A l \in Locators : media[l].status # "FAILED_UPLOAD"

\* The processing of a locator has ended in a run in which every enabled
\* destination was invoked and failed, on records that were Failed already;
\* the item is UploadPending.
C39_Witness ==
    /\ Started
    /\ ended
    /\ Len(uploaders) >= 1
    /\ \A d \in Enabled :
          /\ targetCalls[d] >= 1
          /\ upRes[d].state = "raised"
          /\ RecordIs(d, "FAILED")
    /\ media[cur].status = "UPLOAD_PENDING"

\* The retry_count of the item of the locator in turn when its processing
\* began (0 without a row).
RetryCountBefore == IF row0.exists THEN row0.retry_count ELSE 0

====
